---- MODULE Spec2Model ----
(***************************************************************************)
(* The facility store (src/context/FacilityContext.tsx) and the REST       *)
(* client (src/services/api.ts) of the Animal Management front end, with   *)
(* the backend they talk to.  The store's operations suspend at the        *)
(* network call and resume when the response has arrived, so every         *)
(* operation is two steps: the call (request issued) and the continuation  *)
(* (the code after the await, or the catch block).                         *)
(***************************************************************************)
EXTENDS Integers, Sequences, FiniteSets, TLC

VARIABLES
    animals, healthRecords, feedingTasks, breedingRecords, inventory, staff,
    settings, reportFilters, loading,
    loadCalls,   \* the seven promises loadData awaits, one for each initial call
    pending,     \* the store operations in flight, each with its request and response
    lastError,   \* the error most recently thrown to the caller of a store operation
    server,      \* the backend's documents and id counters
    nOps,        \* the number of store operations invoked so far
    requests,    \* the number of HTTP requests the REST client has sent so far
    apiCall,     \* a call of the REST client: its request, response and promise
    isAuthenticated, currentPage, userEmail,   \* the state of App
    email, password, errors,                   \* the state of LoginPage
    unhandledRejections,  \* the operations whose rejection no caller handled
    resolvedUpdates       \* the updates that have resolved, each with the requests then in
                          \* flight and the screen then rendered

collections == <<animals, healthRecords, feedingTasks, breedingRecords, inventory, staff>>
store == <<animals, healthRecords, feedingTasks, breedingRecords, inventory, staff,
           settings, reportFilters>>
vars == <<animals, healthRecords, feedingTasks, breedingRecords, inventory, staff,
          settings, reportFilters, loading, loadCalls, pending, lastError, server, nOps,
          requests, apiCall, isAuthenticated, currentPage, userEmail, email, password, errors,
          unhandledRejections, resolvedUpdates>>
app == <<isAuthenticated, currentPage, userEmail, email, password, errors>>

(* ------------------------------ bounds --------------------------------- *)
\* store operations invoked in one behaviour
MaxOps == 2
\* store operations in flight at the same time
MaxInFlight == 2
\* entities the server creates in one collection, beyond the seeded ones
MaxNew == 1
\* store operations invoked in one behaviour that starts them during the initial load
MaxStartupOps == 1
\* store operations invoked, one after the other, in one behaviour of the registry scenario
MaxCascadeOps == 3
\* initial calls that fail in one behaviour
MaxLoadFailures == 1
\* calls of the REST client made on its own in one behaviour
MaxApiCalls == 2
\* store operations invoked in one behaviour in which the user also navigates
MaxNavOps == 1

(* ------------------------------ values --------------------------------- *)
Colls == {"animals", "healthRecords", "feedingTasks", "breedingRecords", "inventory", "staff"}
Resources == Colls \cup {"settings"}

\* JavaScript's undefined, as the value of an optional field
Undefined == "undefined"

\* the optional properties of the entity types (notes?: string)
OptionalFields == {"notes"}

\* e.f in JavaScript: undefined when the object has no such property
Get(e, f) == IF f \in DOMAIN e THEN e[f] ELSE Undefined

\* { ...e, ...p }
Merge(e, p) == [f \in (DOMAIN e) \cup (DOMAIN p) |-> IF f \in DOMAIN p THEN p[f] ELSE e[f]]

IdsOf(s) == {s[i].id : i \in 1..Len(s)}

NotificationKeys ==
    {"lowStockAlerts", "healthReminders", "breedingAlerts", "feedingReminders", "emailSummary"}

defaultSettings ==
    [facilityName |-> "Green Valley Animal Care Center",
     notificationPreferences |->
        [lowStockAlerts |-> TRUE, healthReminders |-> TRUE, breedingAlerts |-> TRUE,
         feedingReminders |-> TRUE, emailSummary |-> FALSE],
     lastBackup |-> "startup"]

initialReportFilters == [timeRange |-> "Monthly", reportType |-> "All"]

(* ------------------------------ backend -------------------------------- *)
\* The documents the backend holds when the application starts.
seedServer ==
    [animals |-> << [id |-> "A001", name |-> "Bella", status |-> "Healthy", notes |-> "shy"],
                    [id |-> "A002", name |-> "Luna", status |-> "Breeding"] >>,
     healthRecords |-> << [id |-> "H001", animalId |-> "A002", status |-> "Scheduled"] >>,
     feedingTasks |-> << [id |-> "F001", animalId |-> "A001", animalName |-> "Bella",
                          status |-> "Pending"] >>,
     breedingRecords |-> << [id |-> "B001", motherId |-> "A002", fatherId |-> "A001",
                             status |-> "Pregnant"] >>,
     inventory |-> << [id |-> "I001", quantity |-> 5, reorderLevel |-> 2,
                       status |-> "In Stock"] >>,
     staff |-> << [id |-> "S001", name |-> "Dana", status |-> "Active"] >>,
     settings |-> [facilityName |-> "Riverside Shelter",
                   notificationPreferences |->
                      [lowStockAlerts |-> TRUE, healthReminders |-> FALSE,
                       breedingAlerts |-> TRUE, feedingReminders |-> TRUE,
                       emailSummary |-> TRUE],
                   lastBackup |-> "yesterday"],
     nextId |-> [animals |-> 2, healthRecords |-> 1, feedingTasks |-> 1,
                 breedingRecords |-> 1, inventory |-> 1, staff |-> 1]]

Prefix == [animals |-> "A", healthRecords |-> "H", feedingTasks |-> "F",
           breedingRecords |-> "B", inventory |-> "I", staff |-> "S"]
Digit == <<"1", "2", "3", "4", "5", "6", "7", "8", "9">>

\* the sequential, type-prefixed id the backend assigns: A001, H001, ...
IdOf(c, n) == Prefix[c] \o "00" \o Digit[n]

\* every id the backend can have assigned in collection c
AllIds(c) == {IdOf(c, n) : n \in 1..(seedServer.nextId[c] + MaxNew)}

\* the inventory status the backend derives from quantity and reorder level
DerivedStatus(item) ==
    IF item.quantity <= 0 THEN "Out of Stock"
    ELSE IF item.quantity <= item.reorderLevel THEN "Low Stock"
    ELSE "In Stock"

\* the document as the backend stores it: inventory status is always recomputed
Stored(c, doc) ==
    IF c = "inventory" THEN Merge(doc, [status |-> DerivedStatus(doc)]) ELSE doc

NoResponse == [kind |-> "none"]
NetworkFailure == [kind |-> "neterr"]
Http(status, json, body) ==
    [kind |-> "http", ok |-> (status >= 200 /\ status < 300), status |-> status,
     json |-> json, body |-> body]

\* the responses with which a request can fail
FailResponses ==
    {NetworkFailure, Http(500, TRUE, [error |-> "Internal server error"])}

IndexOf(s, id) == CHOOSE i \in 1..Len(s) : s[i].id = id

\* the backend's response to a request, and its documents afterwards
ServerCreate(c, body) ==
    LET doc == Stored(c, Merge(body, [id |-> IdOf(c, server.nextId[c] + 1)]))
    IN  [resp |-> Http(201, TRUE, doc),
         db |-> [server EXCEPT ![c] = Append(@, doc), !.nextId[c] = @ + 1]]

ServerUpdate(c, id, body) ==
    IF id \notin IdsOf(server[c])
    THEN [resp |-> Http(404, TRUE, [error |-> "Not found"]), db |-> server]
    ELSE LET i == IndexOf(server[c], id)
             doc == Stored(c, Merge(server[c][i], body))
         IN  [resp |-> Http(200, TRUE, doc), db |-> [server EXCEPT ![c][i] = doc]]

ServerDelete(c, id) ==
    IF id \notin IdsOf(server[c])
    THEN [resp |-> Http(404, TRUE, [error |-> "Not found"]), db |-> server]
    ELSE [resp |-> Http(200, TRUE, [message |-> "Deleted"]),
          db |-> [server EXCEPT ![c] = SelectSeq(@, LAMBDA x : x.id # id)]]

ServerPutSettings(body) ==
    LET doc == Merge(server.settings, body)
    IN  [resp |-> Http(200, TRUE, doc), db |-> [server EXCEPT !.settings = doc]]

ServerHandle(r) ==
    CASE r.method = "POST" -> ServerCreate(r.coll, r.body)
      [] r.method = "PUT" /\ r.coll = "settings" -> ServerPutSettings(r.body)
      [] r.method = "PUT" -> ServerUpdate(r.coll, r.id, r.body)
      [] r.method = "DELETE" -> ServerDelete(r.coll, r.id)

(* ----------------------------- REST client ----------------------------- *)
\* JSON.stringify(data): a property whose value is undefined is left out
JSONstringify(data) ==
    [f \in {g \in DOMAIN data : ~(g \in OptionalFields /\ data[g] = Undefined)} |-> data[f]]

\* the body's error field not looked at
ErrorMessageStatusOnly(error, status) == "HTTP error! status: " \o ToString(status)

\* error.error || `HTTP error! status: ${response.status}`
ErrorMessage(error, status) ==
    IF "error" \in DOMAIN error /\ error.error # ""
    THEN error.error
    ELSE "HTTP error! status: " \o ToString(status)

\* the response returned whatever its status: return response.json()
fetchAPIUnchecked(response) ==
    IF response.kind = "neterr"
    THEN [settled |-> "rejected", error |-> "Failed to fetch"]
    ELSE IF ~response.json
    THEN [settled |-> "rejected", error |-> "Unexpected token < in JSON at position 0"]
    ELSE [settled |-> "fulfilled", value |-> response.body]

\* the promise fetchAPI returns for a response
fetchAPI(response) ==
    IF response.kind = "neterr"
    THEN [settled |-> "rejected", error |-> "Failed to fetch"]
    ELSE IF ~response.ok
    THEN LET error == IF response.json THEN response.body ELSE [error |-> "Network error"]
         IN  [settled |-> "rejected", error |-> ErrorMessage(error, response.status)]
    ELSE IF ~response.json
    THEN [settled |-> "rejected", error |-> "Unexpected token < in JSON at position 0"]
    ELSE [settled |-> "fulfilled", value |-> response.body]

(* --------------------------- facility store ---------------------------- *)
NoId == ""
EmptyObject == [f \in {} |-> TRUE]

\* the request a store operation issues through the REST client
Request(op, coll, method, id, args, body) ==
    [rid |-> nOps + 1, op |-> op, coll |-> coll, method |-> method, id |-> id,
     args |-> args, body |-> body, resp |-> NoResponse]

\* a store operation up to its await: one request is issued
Call(req) ==
    /\ pending' = pending \cup {req}
    /\ requests' = requests + 1
    /\ nOps' = nOps + 1
    /\ UNCHANGED <<loading, loadCalls, lastError, unhandledRejections, server, apiCall, app, resolvedUpdates>>

\* the response of r has arrived and the operation op resumes
Settled(r, op) == r \in pending /\ r.op = op /\ r.resp # NoResponse
Fulfilled(r) == fetchAPI(r.resp).settled = "fulfilled"
Value(r) == fetchAPI(r.resp).value

\* what App renders: LoginPage while isAuthenticated is false, or else the screen
\* renderPage() picks for currentPage
Rendered == IF isAuthenticated THEN currentPage ELSE "login"

\* the operation ends: its promise settles and nothing of it stays in flight
Return(r) ==
    /\ pending' = pending \ {r}
    /\ resolvedUpdates' =
          IF r.method = "PUT" /\ Fulfilled(r)
          THEN resolvedUpdates \cup
                  {[rid |-> r.rid, coll |-> r.coll, id |-> r.id,
                    inFlight |-> {q.rid : q \in pending \ {r}}, page |-> Rendered]}
          ELSE resolvedUpdates
    /\ UNCHANGED <<loading, loadCalls, server, nOps, requests, apiCall, app>>

\* the operations a screen awaits in a try block, or whose promise it gives a
\* rejection handler: the screens call every operation as a statement
CatchingCallers == {}

\* catch (error) { console.error(...); throw error; } and the promise the caller got
\* rejects
Throw(r) ==
    /\ lastError' = [rid |-> r.rid, message |-> fetchAPI(r.resp).error]
    /\ unhandledRejections' =
          IF r.op \in CatchingCallers THEN unhandledRejections
          ELSE unhandledRejections \cup {r.rid}
    /\ UNCHANGED store

\* the updated entity moved to the end: [...prev.filter(x => x.id !== id), updated]
ReplacedMovedToEnd(prev, id, updated) ==
    IF id \in IdsOf(prev)
    THEN SelectSeq(prev, LAMBDA x : x.id # id) \o <<updated>>
    ELSE prev

\* the new entity put in front: [created, ...prev]
AppendedInFront(prev, created) == <<created>> \o prev

\* [...prev, created]
Appended(prev, created) == Append(prev, created)

\* an upsert: the entity appended when no entry has the id
ReplacedOrAppended(prev, id, updated) ==
    IF id \in IdsOf(prev)
    THEN [i \in 1..Len(prev) |-> IF prev[i].id = id THEN updated ELSE prev[i]]
    ELSE Append(prev, updated)

\* the updated entity never put in: the collection is returned as it was
ReplacedNowhere(prev, id, updated) == prev

\* prev.map((x) => (x.id === id ? updated : x))
Replaced(prev, id, updated) ==
    [i \in 1..Len(prev) |-> IF prev[i].id = id THEN updated ELSE prev[i]]

\* the comparison turned round: prev.filter((x) => x.id === id)
RemovedAllOthers(prev, id) == SelectSeq(prev, LAMBDA x : x.id = id)

\* prev.filter((x) => x.id !== id)
Removed(prev, id) == SelectSeq(prev, LAMBDA x : x.id # id)

\* prev.filter((record) => record.animalId !== id)
WithoutAnimal(prev, id) == SelectSeq(prev, LAMBDA x : x.animalId # id)

\* the father forgotten: prev.filter((record) => record.motherId !== id)
WithoutMother(prev, id) == SelectSeq(prev, LAMBDA x : x.motherId # id)

\* prev.filter((record) => record.motherId !== id && record.fatherId !== id)
WithoutParent(prev, id) == SelectSeq(prev, LAMBDA x : x.motherId # id /\ x.fatherId # id)

\* an optimistic insert: the payload is put into the collection although the
\* create call rejected
addStaffMemberOptimistic(r) ==
    /\ r \in pending /\ r.op = "addStaffMember" /\ r.resp # NoResponse
    /\ pending' = pending \ {r}
    /\ UNCHANGED <<loading, loadCalls, server, nOps, requests, apiCall, app, resolvedUpdates>>
    /\ staff' = Append(staff, IF fetchAPI(r.resp).settled = "fulfilled"
                              THEN fetchAPI(r.resp).value ELSE r.args)
    /\ unhandledRejections' =
          IF Fulfilled(r) THEN unhandledRejections ELSE unhandledRejections \cup {r.rid}
    /\ lastError' = IF fetchAPI(r.resp).settled = "fulfilled" THEN lastError
                    ELSE [rid |-> r.rid, message |-> fetchAPI(r.resp).error]
    /\ UNCHANGED <<animals, healthRecords, feedingTasks, breedingRecords, inventory,
                   settings, reportFilters>>

(* addAnimal, updateAnimal, deleteAnimal *)
addAnimal(payload) ==
    /\ Call(Request("addAnimal", "animals", "POST", NoId, payload, JSONstringify(payload)))
    /\ UNCHANGED store

\* a failed create tried again: the request is sent a second time
addAnimalSettledRetrying(r) ==
    /\ Settled(r, "addAnimal")
    /\ IF Fulfilled(r)
       THEN /\ Return(r)
            /\ animals' = Appended(animals, Value(r))
            /\ UNCHANGED <<healthRecords, feedingTasks, breedingRecords, inventory, staff, settings, reportFilters, lastError, unhandledRejections>>
       ELSE /\ pending' = (pending \ {r}) \cup {[r EXCEPT !.resp = NoResponse]}
            /\ requests' = requests + 1
            /\ UNCHANGED <<store, loading, loadCalls, lastError, unhandledRejections, server, nOps, apiCall, app, resolvedUpdates>>

addAnimalSettled(r) ==
    /\ Settled(r, "addAnimal")
    /\ Return(r)
    /\ IF Fulfilled(r)
       THEN /\ animals' = Appended(animals, Value(r))
            /\ UNCHANGED <<healthRecords, feedingTasks, breedingRecords, inventory, staff, settings, reportFilters, lastError, unhandledRejections>>
       ELSE Throw(r)

updateAnimal(id, payload) ==
    /\ Call(Request("updateAnimal", "animals", "PUT", id, payload, JSONstringify(payload)))
    /\ UNCHANGED store

\* the animal's name carried into the feeding tasks that reference the animal
updateAnimalSettledSyncing(r) ==
    /\ Settled(r, "updateAnimal")
    /\ Return(r)
    /\ IF Fulfilled(r)
       THEN /\ animals' = Replaced(animals, r.id, Value(r))
            /\ feedingTasks' =
                  [i \in 1..Len(feedingTasks) |->
                      IF feedingTasks[i].animalId = r.id
                      THEN [feedingTasks[i] EXCEPT !.animalName = Value(r).name]
                      ELSE feedingTasks[i]]
            /\ UNCHANGED <<healthRecords, breedingRecords, inventory, staff, settings, reportFilters, lastError, unhandledRejections>>
       ELSE Throw(r)

updateAnimalSettled(r) ==
    /\ Settled(r, "updateAnimal")
    /\ Return(r)
    /\ IF Fulfilled(r)
       THEN /\ animals' = Replaced(animals, r.id, Value(r))
            /\ UNCHANGED <<healthRecords, feedingTasks, breedingRecords, inventory, staff, settings, reportFilters, lastError, unhandledRejections>>
       ELSE Throw(r)

deleteAnimal(id) ==
    /\ Call(Request("deleteAnimal", "animals", "DELETE", id, EmptyObject, EmptyObject))
    /\ UNCHANGED store

\* the cascade carried to the server: a DELETE is sent for every dependent health record
deleteAnimalSettledCascading(r) ==
    /\ Settled(r, "deleteAnimal")
    /\ UNCHANGED <<loading, loadCalls, server, nOps, apiCall, app, resolvedUpdates>>
    /\ IF Fulfilled(r)
       THEN LET dependents == {i \in 1..Len(healthRecords) : healthRecords[i].animalId = r.id}
            IN  /\ pending' = (pending \ {r}) \cup
                      {[rid |-> nOps + i, op |-> "deleteHealthRecord", coll |-> "healthRecords",
                        method |-> "DELETE", id |-> healthRecords[i].id, args |-> EmptyObject,
                        body |-> EmptyObject, resp |-> NoResponse] : i \in dependents}
                /\ requests' = requests + Cardinality(dependents)
                /\ animals' = Removed(animals, r.id)
                /\ healthRecords' = WithoutAnimal(healthRecords, r.id)
                /\ feedingTasks' = WithoutAnimal(feedingTasks, r.id)
                /\ breedingRecords' = WithoutParent(breedingRecords, r.id)
                /\ UNCHANGED <<inventory, staff, settings, reportFilters, lastError, unhandledRejections>>
       ELSE /\ pending' = pending \ {r}
            /\ requests' = requests
            /\ Throw(r)

deleteAnimalSettled(r) ==
    /\ Settled(r, "deleteAnimal")
    /\ Return(r)
    /\ IF Fulfilled(r)
       THEN
            /\ animals' = Removed(animals, r.id)
            /\ healthRecords' = WithoutAnimal(healthRecords, r.id)
            /\ feedingTasks' = WithoutAnimal(feedingTasks, r.id)
            /\ breedingRecords' = WithoutParent(breedingRecords, r.id)
            /\ UNCHANGED <<inventory, staff, settings, reportFilters, lastError, unhandledRejections>>
       ELSE Throw(r)

(* addHealthRecord, updateHealthRecord, deleteHealthRecord *)
addHealthRecord(payload) ==
    /\ Call(Request("addHealthRecord", "healthRecords", "POST", NoId, payload, JSONstringify(payload)))
    /\ UNCHANGED store

\* the animal of the new health record marked as under care
addHealthRecordSettledMarkingAnimal(r) ==
    /\ Settled(r, "addHealthRecord")
    /\ Return(r)
    /\ IF Fulfilled(r)
       THEN /\ healthRecords' = Appended(healthRecords, Value(r))
            /\ animals' =
                  [i \in 1..Len(animals) |->
                      IF animals[i].id = Value(r).animalId
                      THEN [animals[i] EXCEPT !.status = "Under Care"]
                      ELSE animals[i]]
            /\ UNCHANGED <<feedingTasks, breedingRecords, inventory, staff, settings, reportFilters, lastError, unhandledRejections>>
       ELSE Throw(r)

addHealthRecordSettled(r) ==
    /\ Settled(r, "addHealthRecord")
    /\ Return(r)
    /\ IF Fulfilled(r)
       THEN /\ healthRecords' = Appended(healthRecords, Value(r))
            /\ UNCHANGED <<animals, feedingTasks, breedingRecords, inventory, staff, settings, reportFilters, lastError, unhandledRejections>>
       ELSE Throw(r)

updateHealthRecord(id, payload) ==
    /\ Call(Request("updateHealthRecord", "healthRecords", "PUT", id, payload, JSONstringify(payload)))
    /\ UNCHANGED store

updateHealthRecordSettled(r) ==
    /\ Settled(r, "updateHealthRecord")
    /\ Return(r)
    /\ IF Fulfilled(r)
       THEN /\ healthRecords' = Replaced(healthRecords, r.id, Value(r))
            /\ UNCHANGED <<animals, feedingTasks, breedingRecords, inventory, staff, settings, reportFilters, lastError, unhandledRejections>>
       ELSE Throw(r)

deleteHealthRecord(id) ==
    /\ Call(Request("deleteHealthRecord", "healthRecords", "DELETE", id, EmptyObject, EmptyObject))
    /\ UNCHANGED store

deleteHealthRecordSettled(r) ==
    /\ Settled(r, "deleteHealthRecord")
    /\ Return(r)
    /\ IF Fulfilled(r)
       THEN
            /\ healthRecords' = Removed(healthRecords, r.id)
            /\ UNCHANGED <<animals, feedingTasks, breedingRecords, inventory, staff, settings, reportFilters, lastError, unhandledRejections>>
       ELSE Throw(r)

(* addFeedingTask, updateFeedingTask, deleteFeedingTask *)
addFeedingTask(payload) ==
    /\ Call(Request("addFeedingTask", "feedingTasks", "POST", NoId, payload, JSONstringify(payload)))
    /\ UNCHANGED store

addFeedingTaskSettled(r) ==
    /\ Settled(r, "addFeedingTask")
    /\ Return(r)
    /\ IF Fulfilled(r)
       THEN /\ feedingTasks' = Appended(feedingTasks, Value(r))
            /\ UNCHANGED <<animals, healthRecords, breedingRecords, inventory, staff, settings, reportFilters, lastError, unhandledRejections>>
       ELSE Throw(r)

updateFeedingTask(id, payload) ==
    /\ Call(Request("updateFeedingTask", "feedingTasks", "PUT", id, payload, JSONstringify(payload)))
    /\ UNCHANGED store

updateFeedingTaskSettled(r) ==
    /\ Settled(r, "updateFeedingTask")
    /\ Return(r)
    /\ IF Fulfilled(r)
       THEN /\ feedingTasks' = Replaced(feedingTasks, r.id, Value(r))
            /\ UNCHANGED <<animals, healthRecords, breedingRecords, inventory, staff, settings, reportFilters, lastError, unhandledRejections>>
       ELSE Throw(r)

deleteFeedingTask(id) ==
    /\ Call(Request("deleteFeedingTask", "feedingTasks", "DELETE", id, EmptyObject, EmptyObject))
    /\ UNCHANGED store

deleteFeedingTaskSettled(r) ==
    /\ Settled(r, "deleteFeedingTask")
    /\ Return(r)
    /\ IF Fulfilled(r)
       THEN
            /\ feedingTasks' = Removed(feedingTasks, r.id)
            /\ UNCHANGED <<animals, healthRecords, breedingRecords, inventory, staff, settings, reportFilters, lastError, unhandledRejections>>
       ELSE Throw(r)

(* addBreedingRecord, updateBreedingRecord, deleteBreedingRecord *)
addBreedingRecord(payload) ==
    /\ Call(Request("addBreedingRecord", "breedingRecords", "POST", NoId, payload, JSONstringify(payload)))
    /\ UNCHANGED store

addBreedingRecordSettled(r) ==
    /\ Settled(r, "addBreedingRecord")
    /\ Return(r)
    /\ IF Fulfilled(r)
       THEN /\ breedingRecords' = Appended(breedingRecords, Value(r))
            /\ UNCHANGED <<animals, healthRecords, feedingTasks, inventory, staff, settings, reportFilters, lastError, unhandledRejections>>
       ELSE Throw(r)

updateBreedingRecord(id, payload) ==
    /\ Call(Request("updateBreedingRecord", "breedingRecords", "PUT", id, payload, JSONstringify(payload)))
    /\ UNCHANGED store

updateBreedingRecordSettled(r) ==
    /\ Settled(r, "updateBreedingRecord")
    /\ Return(r)
    /\ IF Fulfilled(r)
       THEN /\ breedingRecords' = Replaced(breedingRecords, r.id, Value(r))
            /\ UNCHANGED <<animals, healthRecords, feedingTasks, inventory, staff, settings, reportFilters, lastError, unhandledRejections>>
       ELSE Throw(r)

deleteBreedingRecord(id) ==
    /\ Call(Request("deleteBreedingRecord", "breedingRecords", "DELETE", id, EmptyObject, EmptyObject))
    /\ UNCHANGED store

deleteBreedingRecordSettled(r) ==
    /\ Settled(r, "deleteBreedingRecord")
    /\ Return(r)
    /\ IF Fulfilled(r)
       THEN
            /\ breedingRecords' = Removed(breedingRecords, r.id)
            /\ UNCHANGED <<animals, healthRecords, feedingTasks, inventory, staff, settings, reportFilters, lastError, unhandledRejections>>
       ELSE Throw(r)

(* addInventoryItem, updateInventoryItem, deleteInventoryItem *)
addInventoryItem(payload) ==
    /\ Call(Request("addInventoryItem", "inventory", "POST", NoId, payload, JSONstringify(payload)))
    /\ UNCHANGED store

\* the item stored as the form describes it, with the status a new item starts with
addInventoryItemAsSent(r) ==
    /\ Settled(r, "addInventoryItem")
    /\ Return(r)
    /\ IF Fulfilled(r)
       THEN /\ inventory' =
                  Appended(inventory, Merge(r.args, [id |-> Value(r).id, status |-> "In Stock"]))
            /\ UNCHANGED <<animals, healthRecords, feedingTasks, breedingRecords, staff, settings, reportFilters, lastError, unhandledRejections>>
       ELSE Throw(r)

addInventoryItemSettled(r) ==
    /\ Settled(r, "addInventoryItem")
    /\ Return(r)
    /\ IF Fulfilled(r)
       THEN /\ inventory' = Appended(inventory, Value(r))
            /\ UNCHANGED <<animals, healthRecords, feedingTasks, breedingRecords, staff, settings, reportFilters, lastError, unhandledRejections>>
       ELSE Throw(r)

updateInventoryItem(id, payload) ==
    /\ Call(Request("updateInventoryItem", "inventory", "PUT", id, payload, JSONstringify(payload)))
    /\ UNCHANGED store

updateInventoryItemSettled(r) ==
    /\ Settled(r, "updateInventoryItem")
    /\ Return(r)
    /\ IF Fulfilled(r)
       THEN /\ inventory' = Replaced(inventory, r.id, Value(r))
            /\ UNCHANGED <<animals, healthRecords, feedingTasks, breedingRecords, staff, settings, reportFilters, lastError, unhandledRejections>>
       ELSE Throw(r)

deleteInventoryItem(id) ==
    /\ Call(Request("deleteInventoryItem", "inventory", "DELETE", id, EmptyObject, EmptyObject))
    /\ UNCHANGED store

deleteInventoryItemSettled(r) ==
    /\ Settled(r, "deleteInventoryItem")
    /\ Return(r)
    /\ IF Fulfilled(r)
       THEN
            /\ inventory' = Removed(inventory, r.id)
            /\ UNCHANGED <<animals, healthRecords, feedingTasks, breedingRecords, staff, settings, reportFilters, lastError, unhandledRejections>>
       ELSE Throw(r)

(* addStaffMember, updateStaffMember, deleteStaffMember *)
addStaffMember(payload) ==
    /\ Call(Request("addStaffMember", "staff", "POST", NoId, payload, JSONstringify(payload)))
    /\ UNCHANGED store

addStaffMemberSettled(r) ==
    /\ Settled(r, "addStaffMember")
    /\ Return(r)
    /\ IF Fulfilled(r)
       THEN /\ staff' = Appended(staff, Value(r))
            /\ UNCHANGED <<animals, healthRecords, feedingTasks, breedingRecords, inventory, settings, reportFilters, lastError, unhandledRejections>>
       ELSE Throw(r)

updateStaffMember(id, payload) ==
    /\ Call(Request("updateStaffMember", "staff", "PUT", id, payload, JSONstringify(payload)))
    /\ UNCHANGED store

updateStaffMemberSettled(r) ==
    /\ Settled(r, "updateStaffMember")
    /\ Return(r)
    /\ IF Fulfilled(r)
       THEN /\ staff' = Replaced(staff, r.id, Value(r))
            /\ UNCHANGED <<animals, healthRecords, feedingTasks, breedingRecords, inventory, settings, reportFilters, lastError, unhandledRejections>>
       ELSE Throw(r)

deleteStaffMember(id) ==
    /\ Call(Request("deleteStaffMember", "staff", "DELETE", id, EmptyObject, EmptyObject))
    /\ UNCHANGED store

deleteStaffMemberSettled(r) ==
    /\ Settled(r, "deleteStaffMember")
    /\ Return(r)
    /\ IF Fulfilled(r)
       THEN
            /\ staff' = Removed(staff, r.id)
            /\ UNCHANGED <<animals, healthRecords, feedingTasks, breedingRecords, inventory, settings, reportFilters, lastError, unhandledRejections>>
       ELSE Throw(r)

(* updateSettings, updateNotificationPreference, setReportFilters *)
updateSettings(payload) ==
    /\ Call(Request("updateSettings", "settings", "PUT", NoId, payload, JSONstringify(payload)))
    /\ UNCHANGED store

\* the payload merged into the settings the store holds: setSettings(prev => ({ ...prev, ...data }))
updateSettingsSettledMergingLocally(r) ==
    /\ Settled(r, "updateSettings")
    /\ Return(r)
    /\ IF Fulfilled(r)
       THEN /\ settings' = Merge(settings, r.args)
            /\ UNCHANGED <<collections, reportFilters, lastError, unhandledRejections>>
       ELSE Throw(r)

updateSettingsSettled(r) ==
    /\ Settled(r, "updateSettings")
    /\ Return(r)
    /\ IF Fulfilled(r)
       THEN /\ settings' = Value(r)
            /\ UNCHANGED <<collections, reportFilters, lastError, unhandledRejections>>
       ELSE Throw(r)

\* the preferences rebuilt from the built-in defaults instead of the current ones
currentSettingsFromDefaults(key, value) ==
    [settings EXCEPT !.notificationPreferences =
        [k \in NotificationKeys |->
            IF k = key THEN value ELSE defaultSettings.notificationPreferences[k]]]

\* const currentSettings = { ...settings };
\* currentSettings.notificationPreferences[key] = value;
\* the copy is shallow: notificationPreferences is the object the state holds
currentSettings(key, value) == [settings EXCEPT !.notificationPreferences[key] = value]

updateNotificationPreference(key, value) ==
    /\ settings' = currentSettings(key, value)
    /\ Call(Request("updateNotificationPreference", "settings", "PUT", NoId,
                    [key |-> key, value |-> value], JSONstringify(currentSettings(key, value))))
    /\ UNCHANGED <<collections, reportFilters>>

updateNotificationPreferenceSettled(r) ==
    /\ Settled(r, "updateNotificationPreference")
    /\ Return(r)
    /\ IF Fulfilled(r)
       THEN /\ settings' = Value(r)
            /\ UNCHANGED <<collections, reportFilters, lastError, unhandledRejections>>
       ELSE Throw(r)

setReportFilters(payload) ==
    /\ reportFilters' = payload
    /\ UNCHANGED <<collections, settings, loading, loadCalls, pending, lastError, unhandledRejections, server, nOps,
                   requests, apiCall, app, resolvedUpdates>>

(* the network and the backend *)
\* the backend handles the request of r and its response arrives
serverResponds(r) ==
    /\ r \in pending /\ r.resp = NoResponse
    /\ pending' = (pending \ {r}) \cup {[r EXCEPT !.resp = ServerHandle(r).resp]}
    /\ server' = ServerHandle(r).db
    /\ UNCHANGED <<store, loading, loadCalls, lastError, unhandledRejections, nOps, requests, apiCall, app, resolvedUpdates>>

\* the request of r fails: the backend is not reached, or answers with an error
requestFails(r, f) ==
    /\ r \in pending /\ r.resp = NoResponse
    /\ pending' = (pending \ {r}) \cup {[r EXCEPT !.resp = f]}
    /\ UNCHANGED <<store, loading, loadCalls, lastError, unhandledRejections, server, nOps, requests, apiCall, app, resolvedUpdates>>

\* userEmail: string | undefined, a string being the sequence of its characters
UndefinedEmail == <<Undefined>>

\* a promise that has not settled
NotSettled == [settled |-> "pending"]

\* no call of the REST client made on its own
NoCall == [api |-> "", method |-> "", resp |-> NoResponse, promise |-> NotSettled]

Init ==
    /\ animals = <<>> /\ healthRecords = <<>> /\ feedingTasks = <<>>
    /\ breedingRecords = <<>> /\ inventory = <<>> /\ staff = <<>>
    /\ settings = defaultSettings
    /\ reportFilters = initialReportFilters
    /\ loading = TRUE
    /\ loadCalls = [c \in Resources |-> NotSettled]
    /\ pending = {}
    /\ lastError = [rid |-> 0, message |-> ""]
    /\ server = seedServer
    /\ nOps = 0
    /\ requests = Cardinality(Resources)
    /\ apiCall = NoCall
    /\ unhandledRejections = {}
    /\ resolvedUpdates = {}
    /\ isAuthenticated = FALSE
    /\ currentPage = "title"
    /\ userEmail = UndefinedEmail
    /\ email = <<>> /\ password = "" /\ errors = EmptyObject

(* loadData: the seven initial calls, each with .catch(() => []) or null *)
\* promise.catch(() => fallback): the error of a rejected promise is dropped
Caught(promise) ==
    IF promise.settled = "rejected" THEN [settled |-> "caught"] ELSE promise

\* the backend answers the list call of resource c (the get call, for settings)
loadAnswered(c) ==
    /\ loadCalls[c] = NotSettled
    /\ loadCalls' = [loadCalls EXCEPT ![c] = Caught(fetchAPI(Http(200, TRUE, server[c])))]
    /\ UNCHANGED <<store, loading, pending, lastError, unhandledRejections, server, nOps, requests, apiCall, app, resolvedUpdates>>

FailedLoadCalls == {c \in Resources : loadCalls[c].settled = "caught"}

\* the initial call of resource c fails
loadFailed(c, f) ==
    /\ loadCalls[c] = NotSettled
    /\ loadCalls' = [loadCalls EXCEPT ![c] = Caught(fetchAPI(f))]
    /\ UNCHANGED <<store, loading, pending, lastError, unhandledRejections, server, nOps, requests, apiCall, app, resolvedUpdates>>

\* what one element of the Promise.all array resolves to
loadResult(c) ==
    IF loadCalls[c].settled = "fulfilled" THEN loadCalls[c].value ELSE <<>>

\* the settings reset to the built-in default when the fetch failed
loadedSettingsOrDefault ==
    IF loadCalls["settings"].settled = "fulfilled"
    THEN loadCalls["settings"].value
    ELSE defaultSettings

\* settingsAPI.get().catch(() => null); if (settingsData) setSettings(settingsData)
loadedSettings ==
    IF loadCalls["settings"].settled = "fulfilled"
    THEN loadCalls["settings"].value
    ELSE settings

\* the initial calls without their own .catch: one rejection rejects Promise.all and
\* nothing is installed
loadDataAllOrNothing ==
    /\ loading
    /\ \A c \in Resources : loadCalls[c] # NotSettled
    /\ animals' = IF FailedLoadCalls = {} THEN loadCalls["animals"].value ELSE animals
    /\ healthRecords' =
          IF FailedLoadCalls = {} THEN loadCalls["healthRecords"].value ELSE healthRecords
    /\ feedingTasks' =
          IF FailedLoadCalls = {} THEN loadCalls["feedingTasks"].value ELSE feedingTasks
    /\ breedingRecords' =
          IF FailedLoadCalls = {} THEN loadCalls["breedingRecords"].value ELSE breedingRecords
    /\ inventory' = IF FailedLoadCalls = {} THEN loadCalls["inventory"].value ELSE inventory
    /\ staff' = IF FailedLoadCalls = {} THEN loadCalls["staff"].value ELSE staff
    /\ settings' = IF FailedLoadCalls = {} THEN loadCalls["settings"].value ELSE settings
    /\ loading' = FALSE
    /\ UNCHANGED <<reportFilters, loadCalls, pending, lastError, unhandledRejections, server, nOps, requests, apiCall, app, resolvedUpdates>>

\* the results installed one by one as they arrive, without awaiting them jointly
loadDataAsTheyArrive ==
    /\ loading
    /\ animals' = loadResult("animals")
    /\ healthRecords' = loadResult("healthRecords")
    /\ feedingTasks' = loadResult("feedingTasks")
    /\ breedingRecords' = loadResult("breedingRecords")
    /\ inventory' = loadResult("inventory")
    /\ staff' = loadResult("staff")
    /\ settings' = loadedSettings
    /\ loading' = (\E c \in Resources : loadCalls[c] = NotSettled)
    /\ UNCHANGED <<reportFilters, loadCalls, pending, lastError, unhandledRejections, server, nOps, requests, apiCall, app, resolvedUpdates>>

\* setLoading(false) at the end of the try block instead of in finally, and the
\* initial calls without their own .catch: after a rejection the flag is never reset
loadDataWithoutFinally ==
    /\ loading
    /\ \A c \in Resources : loadCalls[c] # NotSettled
    /\ FailedLoadCalls = {}
    /\ animals' = loadResult("animals")
    /\ healthRecords' = loadResult("healthRecords")
    /\ feedingTasks' = loadResult("feedingTasks")
    /\ breedingRecords' = loadResult("breedingRecords")
    /\ inventory' = loadResult("inventory")
    /\ staff' = loadResult("staff")
    /\ settings' = loadedSettings
    /\ loading' = FALSE
    /\ UNCHANGED <<reportFilters, loadCalls, pending, lastError, unhandledRejections, server, nOps, requests, apiCall, app, resolvedUpdates>>

\* the code of loadData after the await of Promise.all, with its finally block
loadData ==
    /\ loading
    /\ \A c \in Resources : loadCalls[c] # NotSettled
    /\ animals' = loadResult("animals")
    /\ healthRecords' = loadResult("healthRecords")
    /\ feedingTasks' = loadResult("feedingTasks")
    /\ breedingRecords' = loadResult("breedingRecords")
    /\ inventory' = loadResult("inventory")
    /\ staff' = loadResult("staff")
    /\ settings' = loadedSettings
    /\ loading' = FALSE
    /\ UNCHANGED <<reportFilters, loadCalls, pending, lastError, unhandledRejections, server, nOps, requests, apiCall, app, resolvedUpdates>>

(* the REST client called on its own: animalsAPI.getAll(), settingsAPI.update(data), ... *)
\* the functions of the API object of resource c
ApiFunctions(c) ==
    IF c = "settings" THEN {"get", "update"}
    ELSE {"getAll", "getById", "create", "update", "delete"}

\* fetchAPI(endpoint, options): fetch is called once
apiCalled(c, fn) ==
    /\ apiCall.api = "" \/ apiCall.promise # NotSettled
    /\ requests < Cardinality(Resources) + MaxApiCalls
    /\ apiCall' = [api |-> c, method |-> fn, resp |-> NoResponse, promise |-> NotSettled]
    /\ requests' = requests + 1
    /\ UNCHANGED <<store, loading, loadCalls, pending, lastError, unhandledRejections, server, nOps, app, resolvedUpdates>>

\* await fetch(...) settles with a response, or the network fails
apiResponds(response) ==
    /\ apiCall.api # "" /\ apiCall.resp = NoResponse
    /\ apiCall' = [apiCall EXCEPT !.resp = response]
    /\ UNCHANGED <<store, loading, loadCalls, pending, lastError, unhandledRejections, server, nOps, requests, app, resolvedUpdates>>

\* the rest of fetchAPI: the promise it returned settles
apiSettles ==
    /\ apiCall.resp # NoResponse /\ apiCall.promise = NotSettled
    /\ apiCall' = [apiCall EXCEPT !.promise = fetchAPI(apiCall.resp)]
    /\ UNCHANGED <<store, loading, loadCalls, pending, lastError, unhandledRejections, server, nOps, requests, app, resolvedUpdates>>

(* App and LoginPage *)
Pages ==
    {"title", "dashboard", "animals", "health", "feeding", "breeding", "inventory", "staff",
     "reports", "settings"}
\* the module cards of the dashboard
Modules == Pages \ {"title", "dashboard"}

\* the characters \w stands for, as far as the inputs use them
WordChars == {"a", "b", "o", "r", "g", "1", "_"}

\* ([\w-]+\.)+[\w-]{2,}$ : labels of [\w-], each followed by a dot, then two or more of [\w-]
DomainMatches(d) ==
    /\ Len(d) >= 2
    /\ \A j \in 1..Len(d) : d[j] \in WordChars \cup {"-", "."}
    /\ \E j \in 1..Len(d) : d[j] = "."
    /\ d[1] # "." /\ d[Len(d)] # "." /\ d[Len(d) - 1] # "."
    /\ \A j \in 1..(Len(d) - 1) : ~(d[j] = "." /\ d[j + 1] = ".")

\* emailRegex.test(e), emailRegex = /^[\w-.]+@([\w-]+\.)+[\w-]{2,}$/
emailRegexTest(e) ==
    \E i \in 2..Len(e) :
        /\ e[i] = "@"
        /\ \A j \in 1..(i - 1) : e[j] \in WordChars \cup {"-", "."}
        /\ DomainMatches(SubSeq(e, i + 1, Len(e)))

\* e.trim()
Trim(e) ==
    LET kept == {i \in 1..Len(e) : e[i] # " "}
    IN  IF kept = {} THEN <<>>
        ELSE SubSeq(e, CHOOSE i \in kept : \A j \in kept : i <= j,
                       CHOOSE i \in kept : \A j \in kept : i >= j)

\* the validationErrors object handleSubmit builds
validationErrors ==
    LET emailError ==
            IF email = <<>> THEN "Email is required"
            ELSE IF ~emailRegexTest(email) THEN "Enter a valid email address"
            ELSE Undefined
        passwordError ==
            IF password = "" THEN "Password is required"
            ELSE IF Len(password) < 6 THEN "Password must be at least 6 characters"
            ELSE Undefined
        set == [email |-> emailError, password |-> passwordError]
    IN  [f \in {g \in {"email", "password"} : set[g] # Undefined} |-> set[f]]

\* onChange of the two inputs of the login form
setEmail(e) ==
    /\ ~isAuthenticated
    /\ email' = e
    /\ UNCHANGED <<store, loading, loadCalls, pending, lastError, unhandledRejections, server, nOps, requests, apiCall,
                   isAuthenticated, currentPage, userEmail, password, errors, resolvedUpdates>>

setPassword(p) ==
    /\ ~isAuthenticated
    /\ password' = p
    /\ UNCHANGED <<store, loading, loadCalls, pending, lastError, unhandledRejections, server, nOps, requests, apiCall,
                   isAuthenticated, currentPage, userEmail, email, errors, resolvedUpdates>>

\* handleLogin without setCurrentPage('title')
handleLoginKeepingPage(e) ==
    /\ userEmail' = e
    /\ isAuthenticated' = TRUE
    /\ currentPage' = currentPage
    /\ email' = <<>> /\ password' = "" /\ errors' = EmptyObject

\* App.handleLogin; LoginPage is unmounted and its state is gone
handleLogin(e) ==
    /\ userEmail' = e
    /\ isAuthenticated' = TRUE
    /\ currentPage' = "title"
    /\ email' = <<>> /\ password' = "" /\ errors' = EmptyObject

\* the login form is submitted
handleSubmit ==
    /\ ~isAuthenticated
    /\ IF DOMAIN validationErrors = {}
       THEN handleLogin(Trim(email))
       ELSE /\ errors' = validationErrors
            /\ UNCHANGED <<isAuthenticated, currentPage, userEmail, email, password>>
    /\ UNCHANGED <<store, loading, loadCalls, pending, lastError, unhandledRejections, server, nOps, requests, apiCall, resolvedUpdates>>

\* the Logout button of the dashboard
handleLogout ==
    /\ isAuthenticated /\ currentPage = "dashboard"
    /\ isAuthenticated' = FALSE
    /\ userEmail' = UndefinedEmail
    /\ UNCHANGED <<store, loading, loadCalls, pending, lastError, unhandledRejections, server, nOps, requests, apiCall,
                   currentPage, email, password, errors, resolvedUpdates>>

\* a navigation that cancels the calls in flight
setCurrentPageAborting(page) ==
    /\ isAuthenticated
    /\ currentPage' = page
    /\ pending' = {}
    /\ UNCHANGED <<store, loading, loadCalls, lastError, unhandledRejections, server, nOps, requests, apiCall,
                   isAuthenticated, userEmail, email, password, errors, resolvedUpdates>>

\* setCurrentPage(page), as the rendered page calls it
setCurrentPage(page) ==
    /\ isAuthenticated
    /\ currentPage' = page
    /\ UNCHANGED <<store, loading, loadCalls, pending, lastError, unhandledRejections, server, nOps, requests, apiCall,
                   isAuthenticated, userEmail, email, password, errors, resolvedUpdates>>

\* TitlePage onEnter, Dashboard onNavigate(module.id), onBack of a module's screen
onEnter == currentPage = "title" /\ setCurrentPage("dashboard")
onNavigate(page) == currentPage = "dashboard" /\ setCurrentPage(page)
onBack == currentPage \in Modules /\ setCurrentPage("dashboard")

(* Dashboard *)
\* the alert count with only the items marked "Low Stock" counted as low stock
alertCountLowStockOnly ==
    LET pendingFeeding == SelectSeq(feedingTasks, LAMBDA task : Get(task, "status") = "Pending")
        lowStockItems == SelectSeq(inventory, LAMBDA item : Get(item, "status") = "Low Stock")
        openHealthRecords ==
            SelectSeq(healthRecords, LAMBDA record : Get(record, "status") # "Completed")
    IN  Len(pendingFeeding) + Len(lowStockItems) + Len(openHealthRecords)

\* const alertCount = pendingFeeding.length + lowStockItems.length + openHealthRecords.length;
alertCount ==
    LET pendingFeeding == SelectSeq(feedingTasks, LAMBDA task : Get(task, "status") = "Pending")
        lowStockItems == SelectSeq(inventory, LAMBDA item : Get(item, "status") # "In Stock")
        openHealthRecords ==
            SelectSeq(healthRecords, LAMBDA record : Get(record, "status") # "Completed")
    IN  Len(pendingFeeding) + Len(lowStockItems) + Len(openHealthRecords)

(* ------------------------------- inputs -------------------------------- *)
\* the name a screen reads for an animal id: "Unknown" for a dangling reference
NameOf(id) ==
    IF id \in IdsOf(animals) THEN animals[IndexOf(animals, id)].name ELSE "Unknown"

AnimalPayloads ==
    {[name |-> "Rex", species |-> "Dog", breed |-> "Labrador", age |-> 3,
      gender |-> "Male", status |-> "Healthy", notes |-> Undefined]}
AnimalUpdates == {[status |-> "Quarantine"], [name |-> "Max", notes |-> Undefined]}
HealthRecordPayloads == {[animalId |-> a, status |-> "Scheduled"] : a \in AllIds("animals")}
HealthRecordUpdates == {[status |-> "Completed"]}
\* handleAddTask returns early unless animalsById has the selected animal
FeedingTaskPayloads ==
    {[animalId |-> a, animalName |-> NameOf(a), status |-> "Pending"] : a \in IdsOf(animals)}
FeedingTaskUpdates == {[status |-> "Completed"]}
BreedingRecordPayloads ==
    {[motherId |-> m, fatherId |-> "A001", status |-> "Pregnant"] : m \in {"A002", "A003"}}
BreedingRecordUpdates == {[status |-> "Delivered"]}
InventoryItemPayloads == {[quantity |-> q, reorderLevel |-> 2] : q \in {1, 5}}
InventoryItemUpdates == {[quantity |-> 0], [reorderLevel |-> 7]}
StaffMemberPayloads == {[name |-> "Sam", status |-> "Active"]}
StaffMemberUpdates == {[status |-> "On Leave"]}
SettingsPayloads == {[facilityName |-> "Green Valley Annex"], [lastBackup |-> "today"]}
\* the switches of the Settings screen the user toggles
ToggledKeys == {"lowStockAlerts", "emailSummary"}
ReportFilterPayloads == {[timeRange |-> "Weekly", reportType |-> "Animals"]}
\* what the user types into the login form
Emails ==
    {<<>>, <<"a", "b">>, <<"a", "@", "b">>, <<"a", "@", "b", ".", "o">>,
     <<"a", "@", "b", ".", "o", "r", "g">>, <<"a", "@", "b", ".", "o", "r", "g", " ">>,
     <<"1", "_", ".", "a", "@", "b", "-", "r", ".", "g", "o">>}
Passwords == {"", "12345", "secret"}
\* what a user who gets in types into the login form
NavEmails == {<<"a", "@", "b", ".", "o", "r", "g">>}
NavPasswords == {"secret"}
\* the responses a server can give to a call of the REST client
ClientStatuses == {200, 201, 299, 300, 400, 404, 500}
JsonBodies ==
    {[error |-> "Not found"], [error |-> ""], [message |-> "Deleted"],
     [id |-> "A001", name |-> "Bella"]}
NotJson == [text |-> "<html>"]
ClientResponses ==
    {Http(status, TRUE, body) : status \in ClientStatuses, body \in JsonBodies}
        \cup {Http(status, FALSE, NotJson) : status \in ClientStatuses}

(* ---------------------------- specification ---------------------------- *)
LoadStep ==
    \/ \E c \in Resources : loadAnswered(c)
    \/ Cardinality(FailedLoadCalls) < MaxLoadFailures
          /\ \E c \in Resources, f \in FailResponses : loadFailed(c, f)
    \/ loadData

\* the user works with the loaded application
CanCall ==
    /\ ~loading
    /\ nOps < MaxOps
    /\ Cardinality(pending) < MaxInFlight

CallStep ==
    \/ CanCall /\ \E p \in AnimalPayloads : addAnimal(p)
    \/ CanCall /\ \E id \in AllIds("animals"), p \in AnimalUpdates : updateAnimal(id, p)
    \/ CanCall /\ \E id \in AllIds("animals") : deleteAnimal(id)
    \/ CanCall /\ \E p \in HealthRecordPayloads : addHealthRecord(p)
    \/ CanCall /\ \E id \in AllIds("healthRecords"), p \in HealthRecordUpdates : updateHealthRecord(id, p)
    \/ CanCall /\ \E id \in AllIds("healthRecords") : deleteHealthRecord(id)
    \/ CanCall /\ \E p \in FeedingTaskPayloads : addFeedingTask(p)
    \/ CanCall /\ \E id \in AllIds("feedingTasks"), p \in FeedingTaskUpdates : updateFeedingTask(id, p)
    \/ CanCall /\ \E id \in AllIds("feedingTasks") : deleteFeedingTask(id)
    \/ CanCall /\ \E p \in BreedingRecordPayloads : addBreedingRecord(p)
    \/ CanCall /\ \E id \in AllIds("breedingRecords"), p \in BreedingRecordUpdates : updateBreedingRecord(id, p)
    \/ CanCall /\ \E id \in AllIds("breedingRecords") : deleteBreedingRecord(id)
    \/ CanCall /\ \E p \in InventoryItemPayloads : addInventoryItem(p)
    \/ CanCall /\ \E id \in AllIds("inventory"), p \in InventoryItemUpdates : updateInventoryItem(id, p)
    \/ CanCall /\ \E id \in AllIds("inventory") : deleteInventoryItem(id)
    \/ CanCall /\ \E p \in StaffMemberPayloads : addStaffMember(p)
    \/ CanCall /\ \E id \in AllIds("staff"), p \in StaffMemberUpdates : updateStaffMember(id, p)
    \/ CanCall /\ \E id \in AllIds("staff") : deleteStaffMember(id)
    \/ CanCall /\ \E p \in SettingsPayloads : updateSettings(p)
    \/ CanCall /\ \E key \in ToggledKeys, value \in BOOLEAN : updateNotificationPreference(key, value)
    \/ CanCall /\ \E p \in ReportFilterPayloads : setReportFilters(p)

SettledStep ==
    \/ \E r \in pending : addAnimalSettled(r)
    \/ \E r \in pending : updateAnimalSettled(r)
    \/ \E r \in pending : deleteAnimalSettled(r)
    \/ \E r \in pending : addHealthRecordSettled(r)
    \/ \E r \in pending : updateHealthRecordSettled(r)
    \/ \E r \in pending : deleteHealthRecordSettled(r)
    \/ \E r \in pending : addFeedingTaskSettled(r)
    \/ \E r \in pending : updateFeedingTaskSettled(r)
    \/ \E r \in pending : deleteFeedingTaskSettled(r)
    \/ \E r \in pending : addBreedingRecordSettled(r)
    \/ \E r \in pending : updateBreedingRecordSettled(r)
    \/ \E r \in pending : deleteBreedingRecordSettled(r)
    \/ \E r \in pending : addInventoryItemSettled(r)
    \/ \E r \in pending : updateInventoryItemSettled(r)
    \/ \E r \in pending : deleteInventoryItemSettled(r)
    \/ \E r \in pending : addStaffMemberSettled(r)
    \/ \E r \in pending : updateStaffMemberSettled(r)
    \/ \E r \in pending : deleteStaffMemberSettled(r)
    \/ \E r \in pending : updateSettingsSettled(r)
    \/ \E r \in pending : updateNotificationPreferenceSettled(r)

NetworkStep ==
    \/ \E r \in pending : serverResponds(r)
    \/ \E r \in pending, f \in FailResponses : requestFails(r, f)

Next ==
    \/ LoadStep
    \/ CallStep
    \/ SettledStep
    \/ NetworkStep

Spec == Init /\ [][Next]_vars

(* Startup: nothing gates the screens on the loading flag, so the user can invoke *)
(* an operation while the initial load is in flight.                              *)
CanCallStartup ==
    /\ nOps < MaxStartupOps
    /\ Cardinality(pending) < MaxInFlight

StartupCallStep ==
    \/ CanCallStartup /\ \E p \in AnimalPayloads : addAnimal(p)
    \/ CanCallStartup /\ \E id \in AllIds("animals"), p \in AnimalUpdates : updateAnimal(id, p)
    \/ CanCallStartup /\ \E id \in AllIds("animals") : deleteAnimal(id)
    \/ CanCallStartup /\ \E p \in FeedingTaskPayloads : addFeedingTask(p)
    \/ CanCallStartup /\ \E p \in SettingsPayloads : updateSettings(p)

StartupSettledStep ==
    \/ \E r \in pending : addAnimalSettled(r)
    \/ \E r \in pending : updateAnimalSettled(r)
    \/ \E r \in pending : deleteAnimalSettled(r)
    \/ \E r \in pending : addFeedingTaskSettled(r)
    \/ \E r \in pending : updateSettingsSettled(r)

NextStartup ==
    \/ LoadStep
    \/ StartupCallStep
    \/ StartupSettledStep
    \/ NetworkStep

SpecStartup == Init /\ [][NextStartup]_vars

(* The registry scenario: an animal is added, a dependent record is added for it, *)
(* and the animal is deleted, one operation after the other.                      *)
CanCallCascade ==
    /\ ~loading
    /\ nOps < MaxCascadeOps
    /\ pending = {}

CascadeCallStep ==
    \/ CanCallCascade /\ \E p \in AnimalPayloads : addAnimal(p)
    \/ CanCallCascade /\ \E id \in AllIds("animals") : deleteAnimal(id)
    \/ CanCallCascade /\ \E p \in HealthRecordPayloads : addHealthRecord(p)
    \/ CanCallCascade /\ \E p \in FeedingTaskPayloads : addFeedingTask(p)
    \/ CanCallCascade /\ \E p \in BreedingRecordPayloads : addBreedingRecord(p)

CascadeSettledStep ==
    \/ \E r \in pending : addAnimalSettled(r)
    \/ \E r \in pending : deleteAnimalSettled(r)
    \/ \E r \in pending : addHealthRecordSettled(r)
    \/ \E r \in pending : addFeedingTaskSettled(r)
    \/ \E r \in pending : addBreedingRecordSettled(r)

NextCascade ==
    \/ LoadStep
    \/ CascadeCallStep
    \/ CascadeSettledStep
    \/ NetworkStep

SpecCascade == Init /\ [][NextCascade]_vars

(* Startup with any number of the initial calls failing.  Every fetch settles in *)
(* the end (with a response or with a rejection), and a continuation whose await *)
(* has settled is run by the event loop.                                          *)
AnyLoadStep ==
    \/ \E c \in Resources : loadAnswered(c)
    \/ \E c \in Resources, f \in FailResponses : loadFailed(c, f)
    \/ loadData

NextLoad ==
    \/ AnyLoadStep
    \/ StartupCallStep
    \/ StartupSettledStep
    \/ NetworkStep

LoadFairness ==
    /\ WF_vars(loadData)
    /\ \A c \in Resources :
          WF_vars(loadAnswered(c) \/ \E f \in FailResponses : loadFailed(c, f))

SpecLoad == Init /\ [][NextLoad]_vars /\ LoadFairness

(* The store under App: the user logs in, opens a screen, invokes an operation of *)
(* that screen and goes on navigating (or logs out) while the call is in flight.  *)
(* Every fetch settles in the end, and the event loop runs a continuation whose   *)
(* await has settled.                                                             *)
NavLoadStep ==
    \/ \E c \in Resources : loadAnswered(c)
    \/ loadData

CanCallNav(page) ==
    /\ ~loading
    /\ Rendered = page
    /\ nOps < MaxNavOps
    /\ Cardinality(pending) < MaxInFlight

NavCallStep ==
    \/ CanCallNav("animals") /\ \E p \in AnimalPayloads : addAnimal(p)
    \/ CanCallNav("animals") /\ \E id \in AllIds("animals"), p \in AnimalUpdates : updateAnimal(id, p)
    \/ CanCallNav("animals") /\ \E id \in AllIds("animals") : deleteAnimal(id)
    \/ CanCallNav("feeding") /\ \E p \in FeedingTaskPayloads : addFeedingTask(p)
    \/ CanCallNav("settings") /\ \E p \in SettingsPayloads : updateSettings(p)

NavStep ==
    \/ \E e \in NavEmails : setEmail(e)
    \/ \E p \in NavPasswords : setPassword(p)
    \/ handleSubmit
    \/ handleLogout
    \/ onEnter
    \/ \E page \in Modules : onNavigate(page)
    \/ onBack

NextNav ==
    \/ NavLoadStep
    \/ NavStep
    \/ NavCallStep
    \/ StartupSettledStep
    \/ NetworkStep

NavFairness == WF_vars(NetworkStep) /\ WF_vars(StartupSettledStep)

SpecNav == Init /\ [][NextNav]_vars /\ NavFairness

(* The REST client alone, against a server that answers with any status and body. *)
NextClient ==
    \/ \E c \in Resources : \E fn \in ApiFunctions(c) : apiCalled(c, fn)
    \/ \E response \in ClientResponses : apiResponds(response)
    \/ apiResponds(NetworkFailure)
    \/ apiSettles

SpecClient == Init /\ [][NextClient]_vars

(* App: the login form and the navigation between the pages. *)
NextApp ==
    \/ \E e \in Emails : setEmail(e)
    \/ \E p \in Passwords : setPassword(p)
    \/ handleSubmit
    \/ handleLogout
    \/ onEnter
    \/ \E page \in Modules : onNavigate(page)
    \/ onBack

SpecApp == Init /\ [][NextApp]_vars

(* ------------------------------- claims -------------------------------- *)
\* the local collection of a resource
Local(c) ==
    CASE c = "animals" -> animals
      [] c = "healthRecords" -> healthRecords
      [] c = "feedingTasks" -> feedingTasks
      [] c = "breedingRecords" -> breedingRecords
      [] c = "inventory" -> inventory
      [] c = "staff" -> staff

AddOps == {"addAnimal", "addHealthRecord", "addFeedingTask", "addBreedingRecord",
           "addInventoryItem", "addStaffMember"}
UpdateOps == {"updateAnimal", "updateHealthRecord", "updateFeedingTask",
              "updateBreedingRecord", "updateInventoryItem", "updateStaffMember"}
DeleteOps == {"deleteAnimal", "deleteHealthRecord", "deleteFeedingTask",
              "deleteBreedingRecord", "deleteInventoryItem", "deleteStaffMember"}
CollectionOps == AddOps \cup UpdateOps \cup DeleteOps
SettingsOps == {"updateSettings", "updateNotificationPreference"}

\* this step issues the request of r: the operation was called
Issued(r) == r \in pending' /\ r \notin pending /\ r.resp = NoResponse
\* this step runs the continuation of r: the operation resolves or rejects
Resumes(r) == r \in pending /\ r.resp # NoResponse /\ r \notin pending'
Resolves(r) == Resumes(r) /\ Fulfilled(r)
Rejects(r) == Resumes(r) /\ ~Fulfilled(r)

\* reading property f of entity e gives the value the caller passed (undefined
\* reads as undefined whether or not the property exists)
Reflects(e, f, v) ==
    IF f \in OptionalFields /\ v = Undefined THEN f \notin DOMAIN e
    ELSE f \in DOMAIN e /\ e[f] = v

\* C1: when an add resolves, the local collection is the previous collection with
\* exactly one entry appended at the end, the server-returned entity, which has the
\* payload's fields and a non-empty id; the earlier entries are unchanged, in order.
C1_AddAppends ==
    [][\A r \in pending :
        (r.op \in AddOps /\ Resolves(r)) =>
            LET prev == Local(r.coll)
                next == Local(r.coll)'
            IN  /\ Len(next) = Len(prev) + 1
                /\ \A i \in 1..Len(prev) : next[i] = prev[i]
                /\ next[Len(next)] = Value(r)
                /\ Value(r).id # ""
                /\ \A f \in DOMAIN r.args : Reflects(next[Len(next)], f, r.args[f])]_vars

\* C1 witness: an added animal is the last entry, after the two loaded ones
C1_Witness ==
    /\ Len(animals) = 3
    /\ animals[1].id = "A001" /\ animals[2].id = "A002"
    /\ animals[3].id = "A003" /\ animals[3].name = "Rex"

\* C2: when the REST call of an add, update or delete rejects, the operation rejects
\* to its caller with that error and the collections, settings and report filters
\* are as they were; the call itself changes none of them either.
C2_FailureLeavesStore ==
    [][\A r \in pending \cup pending' :
        r.op \in CollectionOps =>
            /\ Issued(r) => store' = store
            /\ Rejects(r) =>
                /\ store' = store
                /\ lastError' = [rid |-> r.rid, message |-> fetchAPI(r.resp).error]]_vars

\* C2 witness: a failed add of an animal has rejected and the loaded animals are there
C2_Witness ==
    /\ lastError.rid = 1 /\ lastError.message = "Internal server error"
    /\ nOps = 1 /\ pending = {}
    /\ server.nextId["animals"] = 2
    /\ Len(animals) = 2

\* C3: when a delete resolves, the local collection has no entity with that id and
\* keeps all its other entities in their previous order.
C3_DeleteRemoves ==
    [][\A r \in pending :
        (r.op \in DeleteOps /\ Resolves(r)) =>
            /\ r.id \notin IdsOf(Local(r.coll)')
            /\ Local(r.coll)' = SelectSeq(Local(r.coll), LAMBDA x : x.id # r.id)]_vars

\* C3 witness: the first of the two loaded animals was deleted, the second is left
C3_Witness ==
    /\ ~loading /\ pending = {} /\ nOps = 1 /\ lastError.rid = 0
    /\ IdsOf(server.animals) = {"A002"}
    /\ IdsOf(animals) = {"A002"}

\* C4: when deleteAnimal(id) resolves, no animal with that id, no health record or
\* feeding task with animalId = id and no breeding record with motherId = id or
\* fatherId = id is left in local state, and the dependents of other animals are
\* kept, in order; so an animal added, a feeding task added for it, and the animal
\* deleted leaves the feeding task absent from local state.
C4_DeleteAnimalCascades ==
    [][\A r \in pending :
        (r.op = "deleteAnimal" /\ Resolves(r)) =>
            /\ r.id \notin IdsOf(animals')
            /\ \A i \in 1..Len(healthRecords') : healthRecords'[i].animalId # r.id
            /\ \A i \in 1..Len(feedingTasks') : feedingTasks'[i].animalId # r.id
            /\ \A i \in 1..Len(breedingRecords') :
                  breedingRecords'[i].motherId # r.id /\ breedingRecords'[i].fatherId # r.id
            /\ healthRecords' = SelectSeq(healthRecords, LAMBDA x : x.animalId # r.id)
            /\ feedingTasks' = SelectSeq(feedingTasks, LAMBDA x : x.animalId # r.id)
            /\ breedingRecords' =
                  SelectSeq(breedingRecords, LAMBDA x : x.motherId # r.id /\ x.fatherId # r.id)]_vars

\* C4 witness: Rex was added as A003, feeding task F002 was added for A003, and A003
\* was deleted: the backend still holds F002, the store holds neither; the feeding
\* task of A001 and the health record of A002 are kept.
C4_Witness ==
    /\ nOps = 3 /\ pending = {} /\ lastError.rid = 0
    /\ server.nextId["animals"] = 3 /\ "A003" \notin IdsOf(server.animals)
    /\ "F002" \in IdsOf(server.feedingTasks)
    /\ server.feedingTasks[IndexOf(server.feedingTasks, "F002")].animalId = "A003"
    /\ "A003" \notin IdsOf(animals)
    /\ IdsOf(feedingTasks) = {"F001"}
    /\ IdsOf(healthRecords) = {"H001"}
    /\ Len(animals) = 2

Entity(s, id) == s[IndexOf(s, id)]

\* the properties of a payload that reach the server
SentFields(args) == {f \in DOMAIN args : ~(f \in OptionalFields /\ args[f] = Undefined)}

\* the properties the server computes itself, whatever the client sends
DerivedFields(c) == IF c = "inventory" THEN {"status"} ELSE {}

\* both objects lack property f, or both have it with the same value
SameField(a, b, f) ==
    /\ (f \in DOMAIN a) = (f \in DOMAIN b)
    /\ f \in DOMAIN a => a[f] = b[f]

\* C5 as stated: after update(id, partialFields) succeeds, the local entity with that
\* id reflects exactly the fields given in partialFields and every field not given
\* has the value it had before.  (A field whose value is undefined counts as not
\* given: it is not sent.)
C5_UpdateReflectsExactly ==
    [][\A r \in pending :
        (r.op \in UpdateOps /\ Resolves(r) /\ r.id \in IdsOf(Local(r.coll))) =>
            LET old == Entity(Local(r.coll), r.id)
                new == Entity(Local(r.coll)', r.id)
            IN  /\ \A f \in SentFields(r.args) : f \in DOMAIN new /\ new[f] = r.args[f]
                /\ \A f \in ((DOMAIN old) \cup (DOMAIN new)) \ SentFields(r.args) :
                      SameField(old, new, f)]_vars

\* C5 amended: after update(id, partialFields) succeeds, the local entity with that id
\* is the entity the server returned; every field given with a defined value has that
\* value, except the inventory status, which the server derives from quantity and
\* reorder level; every other field (not given, or given as undefined and so not sent)
\* has the value of the server's copy, which is the local value when the local entity
\* equals the server's copy.
C5_UpdateReplacesWithServerEntity ==
    [][\A r \in pending :
        /\ (r.op \in UpdateOps /\ Resolves(r) /\ r.id \in IdsOf(Local(r.coll))) =>
              LET new == Entity(Local(r.coll)', r.id)
              IN  /\ new = Value(r)
                  /\ \A f \in SentFields(r.args) \ DerivedFields(r.coll) : new[f] = r.args[f]
                  /\ r.coll = "inventory" => new.status = DerivedStatus(new)
        /\ (r.op \in UpdateOps /\ r.resp = NoResponse) =>
              \A q \in pending' :
                 (q.rid = r.rid /\ q.resp # NoResponse /\ Fulfilled(q)) =>
                     LET doc == Entity(server[r.coll], r.id)
                     IN  /\ \A f \in (DOMAIN doc) \ (SentFields(r.args) \cup DerivedFields(r.coll)) :
                               SameField(doc, Value(q), f)
                         /\ (r.id \in IdsOf(Local(r.coll)) /\ Entity(Local(r.coll), r.id) = doc) =>
                               \A f \in (DOMAIN doc) \ (SentFields(r.args) \cup DerivedFields(r.coll)) :
                                  SameField(Entity(Local(r.coll), r.id), Value(q), f)]_vars

\* C5 witness: the status of A001 was updated; its name and notes are as loaded
C5_Witness ==
    /\ pending = {} /\ nOps = 1 /\ lastError.rid = 0
    /\ Len(animals) = 2
    /\ animals[1] = [id |-> "A001", name |-> "Bella", status |-> "Quarantine", notes |-> "shy"]

\* C6 (write-through): no mutating operation changes the store before the server has
\* confirmed success: the call changes nothing, and neither does a failure.
C6_WriteThrough ==
    [][\A r \in pending \cup pending' :
        (r.op \in CollectionOps \cup SettingsOps) =>
            /\ Issued(r) => store' = store
            /\ Rejects(r) => store' = store]_vars

\* C7: updateNotificationPreference(key, value) sends exactly one settings update
\* whose body is the complete current settings with only the named flag set to
\* value; after it succeeds the store's settings are the settings before the call
\* with that one flag changed.
C7_PreferenceUpdate ==
    [][\A r \in pending \cup pending' :
        r.op = "updateNotificationPreference" =>
            /\ Issued(r) =>
                /\ pending' = pending \cup {r}
                /\ r.method = "PUT" /\ r.coll = "settings"
                /\ DOMAIN r.body = DOMAIN settings
                /\ r.body.facilityName = settings.facilityName
                /\ r.body.lastBackup = settings.lastBackup
                /\ \A k \in NotificationKeys :
                      r.body.notificationPreferences[k] =
                         IF k = r.args.key THEN r.args.value
                         ELSE settings.notificationPreferences[k]
            /\ Resolves(r) => settings' = r.body]_vars

\* C7 witness: lowStockAlerts was toggled from true to false; everything else is as
\* loaded from the server, which holds the same settings
C7_Witness ==
    /\ pending = {} /\ nOps = 1 /\ lastError.rid = 0
    /\ settings = [seedServer.settings EXCEPT !.notificationPreferences.lowStockAlerts = FALSE]
    /\ server.settings = settings

\* the local value of a resource: a collection, or the settings
Resource(c) == IF c = "settings" THEN settings ELSE Local(c)

\* this step is the continuation of loadData: a step of no store operation that
\* changes the store or the loading flag
LoadCompletes ==
    /\ pending' = pending /\ nOps' = nOps
    /\ store' # store \/ loading' # loading

AllSettled == \A c \in Resources : loadCalls[c] # NotSettled

\* C8 as stated: if exactly one of the seven initial calls rejects, then after the load
\* the other six resources hold the data the server returned, the failed one is an
\* empty sequence, and the loading flag is false.
C8_OneFailureEmptySequence ==
    [][(LoadCompletes /\ Cardinality(FailedLoadCalls) = 1) =>
          /\ loading' = FALSE
          /\ \A c \in Resources :
                IF c \in FailedLoadCalls THEN DOMAIN Resource(c)' = {}
                ELSE Resource(c)' = loadCalls[c].value]_vars

\* C8 amended: if exactly one of the seven initial calls rejects, then after the load
\* the other six resources hold the data the server returned and the loading flag is
\* false; the failed one is an empty sequence if it is a collection, and if it is the
\* settings fetch the settings are left as they were.
C8_OneFailureDegrades ==
    [][(LoadCompletes /\ Cardinality(FailedLoadCalls) = 1) =>
          /\ loading' = FALSE
          /\ \A c \in Colls :
                Local(c)' = IF c \in FailedLoadCalls THEN <<>> ELSE loadCalls[c].value
          /\ settings' = IF "settings" \in FailedLoadCalls THEN settings
                         ELSE loadCalls["settings"].value]_vars

\* C8 witness: the staff list failed; the store is loaded with the other six
C8_Witness ==
    /\ ~loading /\ FailedLoadCalls = {"staff"}
    /\ staff = <<>>
    /\ animals = seedServer.animals /\ healthRecords = seedServer.healthRecords
    /\ feedingTasks = seedServer.feedingTasks /\ breedingRecords = seedServer.breedingRecords
    /\ inventory = seedServer.inventory /\ settings = seedServer.settings

\* C9 as stated: if the initial settings fetch fails, the settings after the load are
\* exactly the built-in default, the six collections are populated from their own
\* responses, and initialization does not fail.
C9_SettingsAreDefault ==
    [][(LoadCompletes /\ "settings" \in FailedLoadCalls) =>
          /\ settings' = defaultSettings
          /\ \A c \in Colls : Local(c)' = loadCalls[c].value
          /\ loading' = FALSE]_vars

\* C9 amended: if the initial settings fetch fails, the load leaves the settings as
\* they were just before it completed: the built-in default when no store operation
\* was invoked during the load; the six collections are populated from their own
\* responses, and initialization does not fail.
C9_SettingsAreKept ==
    [][(LoadCompletes /\ "settings" \in FailedLoadCalls) =>
          /\ settings' = settings
          /\ nOps = 0 => settings' = defaultSettings
          /\ \A c \in Colls \ FailedLoadCalls : Local(c)' = loadCalls[c].value
          /\ loading' = FALSE]_vars

\* C9 witness: loaded, the settings fetch failed, the settings are the default ones
\* and the collections are those of the server
C9_Witness ==
    /\ ~loading /\ FailedLoadCalls = {"settings"}
    /\ settings = defaultSettings
    /\ defaultSettings.notificationPreferences =
          [lowStockAlerts |-> TRUE, healthReminders |-> TRUE, breedingAlerts |-> TRUE,
           feedingReminders |-> TRUE, emailSummary |-> FALSE]
    /\ animals = seedServer.animals /\ staff = seedServer.staff
    /\ inventory = seedServer.inventory

\* C10: the loading flag is false only after all seven initial calls have settled,
\* and while one of them is pending the initial load changes no collection and not
\* the settings: the seven results are installed together.
C10_LoadedOnlyWhenAllSettled ==
    [][/\ ~loading' => \A c \in Resources : loadCalls'[c] # NotSettled
       /\ (LoadCompletes /\ ~AllSettled) => FALSE
       /\ LoadCompletes =>
             /\ loading' = FALSE
             /\ \A c \in Colls : Local(c)' = loadResult(c)]_vars

\* C10 witness: all seven calls succeeded and the store is loaded with their results
C10_Witness ==
    /\ ~loading /\ AllSettled /\ FailedLoadCalls = {} /\ nOps = 0
    /\ \A c \in Colls : Local(c) = seedServer[c]
    /\ settings = seedServer.settings

\* C11: from the initial state the store eventually reaches the loaded state
\* (loading = false) with every collection a sequence, whatever subset of the seven
\* initial calls fails, and stays loaded.
C11_EventuallyLoaded ==
    <>[](~loading /\ \A c \in Colls : DOMAIN Local(c) = 1..Len(Local(c)))

\* C11 witness: all seven initial calls failed and the store is loaded
C11_Witness ==
    /\ ~loading /\ FailedLoadCalls = Resources
    /\ \A c \in Colls : Local(c) = <<>>
    /\ settings = defaultSettings

\* C12: the request addInventoryItem issues has a body without a status field, and
\* when it resolves the item appended locally carries the status the server derived:
\* an item created with quantity below its reorder level is not "In Stock" locally.
C12_ServerDerivedStatus ==
    [][\A r \in pending \cup pending' :
        r.op = "addInventoryItem" =>
            /\ Issued(r) => "status" \notin DOMAIN r.body /\ r.method = "POST"
            /\ Resolves(r) =>
                  LET item == inventory'[Len(inventory')]
                  IN  /\ item = Value(r)
                      /\ item.status = DerivedStatus(r.args)
                      /\ r.args.quantity < r.args.reorderLevel => item.status # "In Stock"]_vars

\* C12 witness: an item added with quantity 1 and reorder level 2 is in the local
\* inventory with a status other than "In Stock"
C12_Witness ==
    \E i \in 1..Len(inventory) :
        /\ inventory[i].id = "I002"
        /\ inventory[i].quantity = 1 /\ inventory[i].reorderLevel = 2
        /\ inventory[i].status = "Low Stock"

\* the call of the REST client has settled for an HTTP response
Answered == apiCall.promise # NotSettled /\ apiCall.resp.kind = "http"
Is2xx(status) == status >= 200 /\ status <= 299

\* C13: for every function of the REST client, a non-2xx response makes the call
\* reject and a 2xx response with a well-formed JSON body makes it resolve with the
\* parsed body.
C13_RejectsExactlyNon2xx ==
    Answered =>
        /\ ~Is2xx(apiCall.resp.status) => apiCall.promise.settled = "rejected"
        /\ (Is2xx(apiCall.resp.status) /\ apiCall.resp.json) =>
              apiCall.promise = [settled |-> "fulfilled", value |-> apiCall.resp.body]

\* C13 witness: deleting through the client was answered 404 and the call rejected
C13_Witness ==
    /\ Answered /\ apiCall.api = "staff" /\ apiCall.method = "delete"
    /\ apiCall.resp.status = 404
    /\ apiCall.promise.settled = "rejected"

\* C14 as stated: the message of the rejection on a non-2xx response is the body's
\* error field if the body has one, else a generic network-error message or the
\* numeric status code as a string.
C14_MessageIsErrorOrStatusCode ==
    (Answered /\ ~Is2xx(apiCall.resp.status)) =>
        IF apiCall.resp.json /\ "error" \in DOMAIN apiCall.resp.body
        THEN apiCall.promise.error = apiCall.resp.body.error
        ELSE apiCall.promise.error \in {"Network error", ToString(apiCall.resp.status)}

\* C14 amended: the message is the body's error field if the body is a JSON object
\* with a non-empty one; "Network error" if the body is not JSON; else the text
\* "HTTP error! status: " followed by the status code.
C14_MessageOfRejection ==
    (Answered /\ ~Is2xx(apiCall.resp.status)) =>
        /\ apiCall.promise.settled = "rejected"
        /\ apiCall.promise.error =
              IF ~apiCall.resp.json THEN "Network error"
              ELSE IF "error" \in DOMAIN apiCall.resp.body /\ apiCall.resp.body.error # ""
              THEN apiCall.resp.body.error
              ELSE "HTTP error! status: " \o ToString(apiCall.resp.status)

\* C14 witness: a 500 whose JSON body has no error field rejected with the status text
C14_Witness ==
    /\ Answered /\ apiCall.resp.status = 500 /\ apiCall.resp.json
    /\ "error" \notin DOMAIN apiCall.resp.body
    /\ apiCall.promise.error = "HTTP error! status: 500"

\* C15: the number of requests sent is the number of store operations invoked plus
\* the seven initial calls: the call of an operation sends exactly one request, the
\* continuation of an operation sends none, and a request that has been answered or
\* has failed is not sent again.
C15_OneRequestPerOperation ==
    /\ requests = Cardinality(Resources) + nOps
    /\ [][/\ requests' = Cardinality(Resources) + nOps'
          /\ nOps' # nOps =>
                \E r \in pending' : Issued(r) /\ pending' = pending \cup {r}
          /\ \A r \in pending :
                /\ Resumes(r) => requests' = requests /\ pending' = pending \ {r}
                /\ r.resp # NoResponse =>
                      \A q \in pending' : q.rid = r.rid => q.resp = r.resp]_vars

\* C15 witness: two operations were invoked, the first failed and has rejected, and
\* nine requests have been sent
C15_Witness ==
    /\ nOps = 2 /\ requests = 9
    /\ lastError.rid = 1
    /\ \A r \in pending : r.rid = 2

\* this step is a submission of the login form that shows its outcome
Submits == ~isAuthenticated /\ (errors' # errors \/ isAuthenticated')

\* C16 as stated: submitting the login form with an email and an empty password
\* authenticates the user and shows the application.
C16_LoginWithoutPassword ==
    [][(Submits /\ email # <<>> /\ password = "") =>
          isAuthenticated' /\ userEmail' = Trim(email)]_vars

\* the documents of server collection c that refer to animal id
Dependents(db, c, id) ==
    {db[c][i] : i \in {j \in 1..Len(db[c]) :
        IF c = "breedingRecords" THEN db[c][j].motherId = id \/ db[c][j].fatherId = id
        ELSE db[c][j].animalId = id}}

DependentColls == {"healthRecords", "feedingTasks", "breedingRecords"}

\* C17: deleteAnimal(id) issues exactly one request, the DELETE of the animal; its
\* continuation issues none; the server's handling of that request leaves the
\* dependent collections as they are; so when the local cascade has removed the
\* dependents of id the server still holds them.
C17_CascadeOnlyLocal ==
    [][\A r \in pending \cup pending' :
        r.op = "deleteAnimal" =>
            /\ Issued(r) =>
                  /\ r.method = "DELETE" /\ r.coll = "animals"
                  /\ pending' = pending \cup {r}
                  /\ requests' = requests + 1
            /\ (r \in pending /\ r.resp = NoResponse /\ r \notin pending') =>
                  \A c \in DependentColls : server'[c] = server[c]
            /\ Resolves(r) =>
                  /\ pending' = pending \ {r}
                  /\ requests' = requests
                  /\ \A c \in DependentColls :
                        /\ Dependents(server', c, r.id) = Dependents(server, c, r.id)
                        /\ \A d \in Dependents(server', c, r.id) : d.id \notin IdsOf(Local(c)')]_vars

\* C17 witness: animal A001 was deleted; its feeding task F001 and the breeding
\* record B001 it fathered are gone locally and still held by the server
C17_Witness ==
    /\ pending = {} /\ lastError.rid = 0
    /\ "A001" \notin IdsOf(animals) /\ "A001" \notin IdsOf(server.animals)
    /\ feedingTasks = <<>> /\ breedingRecords = <<>>
    /\ "F001" \in IdsOf(server.feedingTasks)
    /\ "B001" \in IdsOf(server.breedingRecords)

\* C18 as stated: when a store mutation invoked by a screen handler fails, the screen
\* catches the error (to log it, re-throw it or display it): the rejection does not
\* go unhandled.
C18_ScreenCatchesError ==
    [][\A r \in pending :
        (r.op \in CollectionOps \cup SettingsOps /\ Rejects(r)) =>
            r.rid \notin unhandledRejections']_vars

\* C19 as stated: when delete(id) has succeeded and removed id from the local
\* collection, the late response of an update(id) puts an entity with that id back
\* into the collection.
C19_LateUpdateResurrects ==
    [][\A r \in pending :
        (r.op \in UpdateOps /\ Resolves(r) /\ r.id \notin IdsOf(Local(r.coll))) =>
            r.id \in IdsOf(Local(r.coll)')]_vars

\* C19 amended: the continuation of a resolved update never adds an id to the local
\* collection; when delete(id) has removed id, the late response of an update(id)
\* leaves the collection as it is.
C19_LateUpdateIsDropped ==
    [][\A r \in pending :
        (r.op \in UpdateOps /\ Resolves(r)) =>
            /\ IdsOf(Local(r.coll)') = IdsOf(Local(r.coll))
            /\ Len(Local(r.coll)') = Len(Local(r.coll))
            /\ r.id \notin IdsOf(Local(r.coll)) => Local(r.coll)' = Local(r.coll)]_vars

\* C19 witness: updateStaffMember("S001") and deleteStaffMember("S001") were both in
\* flight, the server handled the update and then the delete, the delete has resolved
\* and removed S001, and the update's response waits with the updated entity
C19_Witness ==
    /\ nOps = 2 /\ lastError.rid = 0
    /\ "S001" \notin IdsOf(staff) /\ "S001" \notin IdsOf(server.staff)
    /\ \E r \in pending :
          /\ pending = {r}
          /\ r.op = "updateStaffMember" /\ r.id = "S001"
          /\ r.resp # NoResponse /\ Fulfilled(r) /\ Value(r).id = "S001"


\* the local copy and the server's copy of the entity that request r writes
LocalCopy(r) == IF r.coll = "settings" THEN settings ELSE Entity(Local(r.coll), r.id)
ServerCopy(r) == IF r.coll = "settings" THEN server.settings ELSE Entity(server[r.coll], r.id)

\* an update of the same entity resolved while r was in flight
Overlapped(r) ==
    \E h \in resolvedUpdates : h.coll = r.coll /\ h.id = r.id /\ r.rid \in h.inFlight

\* C20: last write wins: when two updates of the same entity (or two updates of
\* the settings) were in flight at the same time and both succeeded, then once
\* the second of them has resolved and no other request is in flight, the local
\* entity equals the server's copy, the result of the write applied last
C20_LastWriteWins ==
    [][\A r \in pending :
        (/\ r.method = "PUT" /\ Resolves(r) /\ Overlapped(r)
         /\ pending' = {}
         /\ r.coll # "settings" =>
               r.id \in IdsOf(Local(r.coll)') /\ r.id \in IdsOf(server[r.coll])) =>
            LocalCopy(r)' = ServerCopy(r)']_vars


\* this step is a navigation: App renders another screen
Navigates == Rendered' # Rendered

\* the result of the resolved request r is in the store after this step
Applied(r) ==
    CASE r.op \in AddOps -> \E i \in 1..Len(Local(r.coll)') : Local(r.coll)'[i] = Value(r)
      [] r.op \in UpdateOps ->
            r.id \in IdsOf(Local(r.coll)) =>
                /\ r.id \in IdsOf(Local(r.coll)')
                /\ Entity(Local(r.coll)', r.id) = Value(r)
      [] r.op \in DeleteOps -> r.id \notin IdsOf(Local(r.coll)')
      [] r.op \in SettingsOps -> settings' = Value(r)

\* the operation numbered rid is in flight
InFlight(rid) == \E r \in pending : r.rid = rid

\* C21: no navigation (to another screen, or out by logout) removes or changes a
\* call in flight or changes the store; the continuation of a resolved call
\* applies its result whatever screen is rendered; and every operation in flight
\* comes to its continuation, however the user navigates meanwhile
C21_NavigationNeverAborts ==
    /\ [][/\ Navigates => pending' = pending /\ store' = store
          /\ \A r \in pending : Resolves(r) => Applied(r)]_vars
    /\ \A rid \in 1..MaxNavOps : InFlight(rid) ~> ~InFlight(rid)

\* C21 witness: updateSettings was invoked on the Settings screen, the user went
\* back to the dashboard and logged out, and the call resolved while the login
\* page was rendered: the store holds the new facility name
C21_Witness ==
    /\ pending = {}
    /\ settings.facilityName = "Green Valley Annex"
    /\ \E h \in resolvedUpdates : h.coll = "settings" /\ h.page = "login"


\* C22: the animal name in a feeding task is not kept in sync: the continuation
\* of a successful updateAnimal, one that renames the animal included, leaves the
\* feedingTasks collection, and so every task's animalName, unchanged
C22_AnimalNameNotSynced ==
    [][\A r \in pending :
        (r.op = "updateAnimal" /\ Resolves(r)) => feedingTasks' = feedingTasks]_vars

\* C22 witness: animal A001 was renamed from Bella to Max, and its feeding task
\* F001 still carries the name Bella
C22_Witness ==
    /\ pending = {} /\ lastError.rid = 0
    /\ \E h \in resolvedUpdates : h.coll = "animals" /\ h.id = "A001"
    /\ "A001" \in IdsOf(animals) /\ Entity(animals, "A001").name = "Max"
    /\ \E i \in 1..Len(feedingTasks) :
          /\ feedingTasks[i].animalId = "A001"
          /\ feedingTasks[i].animalName = "Bella"


\* C23 as stated: after updateSettings(partial) succeeds the store's settings are
\* the settings the store held merged with the payload: the fields the payload
\* names have the payload's values, every other field keeps the store's value
C23_MergesIntoLocalSettings ==
    [][\A r \in pending :
        (r.op = "updateSettings" /\ Resolves(r)) =>
            /\ \A f \in DOMAIN r.args : settings'[f] = r.args[f]
            /\ \A f \in DOMAIN settings \ DOMAIN r.args : settings'[f] = settings[f]]_vars

\* C23: after updateSettings(partial) succeeds the store's settings are the
\* document the server answered with: the fields the payload names have the
\* payload's values, and every other field has the value of the server's
\* document, whatever the store held (the server's present document, when no
\* other write of the settings has been answered)
C23_SettingsBecomeServerDocument ==
    [][\A r \in pending :
        (r.op = "updateSettings" /\ Resolves(r)) =>
            /\ settings' = Value(r)
            /\ \A f \in DOMAIN r.args : settings'[f] = r.args[f]
            /\ (/\ \A q \in pending : q.coll = "settings" => q = r
                /\ \A h \in resolvedUpdates : h.coll # "settings") =>
                  \A f \in DOMAIN settings' \ DOMAIN r.args : settings'[f] = server.settings[f]]_vars

\* C23 witness: the initial call for the settings failed, so the store held the
\* default facility name; updateSettings({lastBackup}) succeeded and the store
\* now holds the server's facility name
C23_Witness ==
    /\ loadCalls["settings"].settled = "caught"
    /\ pending = {}
    /\ \E h \in resolvedUpdates : h.coll = "settings"
    /\ settings.lastBackup = "today"
    /\ settings.facilityName = "Riverside Shelter"


\* the number of entries of collection s whose status is in set
CountStatus(s, set) == Cardinality({i \in 1..Len(s) : Get(s[i], "status") \in set})

\* C24: in every state of the store the dashboard's alert count is the number of
\* feeding tasks with status Pending, plus the number of inventory items whose
\* status is not "In Stock", plus the number of health records whose status is
\* not "Completed", of the collections as they are in that state
C24_AlertCount ==
    alertCount =
        CountStatus(feedingTasks, {"Pending"})
        + (Len(inventory) - CountStatus(inventory, {"In Stock"}))
        + (Len(healthRecords) - CountStatus(healthRecords, {"Completed"}))

\* C24 witness: a pending feeding task, a scheduled health record and an item
\* that is out of stock (quantity updated to 0) make three alerts
C24_Witness ==
    /\ alertCount = 3
    /\ \E i \in 1..Len(inventory) : inventory[i].status = "Out of Stock"
    /\ \E i \in 1..Len(feedingTasks) : feedingTasks[i].status = "Pending"
    /\ \E i \in 1..Len(healthRecords) : healthRecords[i].status = "Scheduled"


\* C25: id uniqueness: in every reachable state no local collection holds two
\* entries with the same id, however the initial load interleaves with the
\* operations (the server gives every created entity a fresh id)
C25_IdsUnique ==
    \A c \in Colls : Cardinality(IdsOf(Local(c))) = Len(Local(c))


\* C26: a successful add is never lost: an entity that an add put in its local
\* collection stays there in every later state, until a delete of its id (or, for
\* a dependent record, the delete of its animal) succeeds; the completion of the
\* initial load does not remove it
C26_AddNeverLost ==
    [][\A c \in Colls : \A id \in IdsOf(Local(c)) \ IdsOf(seedServer[c]) :
          \/ id \in IdsOf(Local(c)')
          \/ \E r \in pending :
                /\ Resolves(r)
                /\ \/ r.op \in DeleteOps /\ r.coll = c /\ r.id = id
                   \/ r.op = "deleteAnimal" /\ c \in DependentColls]_vars


\* deleteAnimal(id) has succeeded: the seeded animal id is gone from the server
\* and from the store, and no deleteAnimal(id) is still in flight
DeletedAnimal(id) ==
    /\ id \in IdsOf(seedServer.animals)
    /\ id \notin IdsOf(server.animals)
    /\ id \notin IdsOf(animals)
    /\ \A r \in pending : ~(r.op = "deleteAnimal" /\ r.id = id)

\* C27: after deleteAnimal(id) has succeeded, the store holds no health record,
\* feeding task or breeding record that refers to id, in any later state, also
\* when an add or update of such a record was in flight when the delete completed
C27_NoDependentsAfterDelete ==
    \A id \in IdsOf(seedServer.animals) :
        DeletedAnimal(id) =>
            \A c \in DependentColls : Dependents([d \in Colls |-> Local(d)], c, id) = {}


\* C28: the continuation of a successful add, update or delete changes only the
\* collection the operation targets: the other five collections, the settings
\* and the report filters stay as they are; deleteAnimal alone changes more than
\* one collection, and it leaves inventory, staff, settings and report filters
\* as they are; an update of the settings changes no collection
C28_OnlyTargetChanges ==
    [][\A r \in pending :
        Resolves(r) =>
            /\ reportFilters' = reportFilters
            /\ r.op \in CollectionOps => settings' = settings
            /\ r.op \in SettingsOps => \A c \in Colls : Local(c)' = Local(c)
            /\ r.op \in CollectionOps \ {"deleteAnimal"} =>
                  \A c \in Colls \ {r.coll} : Local(c)' = Local(c)
            /\ r.op = "deleteAnimal" => inventory' = inventory /\ staff' = staff]_vars

\* C28 witness: health record H002 was added for animal A001; the other
\* collections are as they were loaded
C28_Witness ==
    /\ pending = {} /\ nOps = 1 /\ ~loading
    /\ \E i \in 1..Len(healthRecords) :
          healthRecords[i].id = "H002" /\ healthRecords[i].animalId = "A001"
    /\ animals = seedServer.animals /\ feedingTasks = seedServer.feedingTasks
    /\ breedingRecords = seedServer.breedingRecords
    /\ inventory = seedServer.inventory /\ staff = seedServer.staff


\* C29: update preserves order: when update(id) succeeds and an entity with that
\* id is in the local collection, the collection afterwards has the same length
\* and, at every position, the entity it had, except that the position that held
\* id holds the entity the server returned
C29_UpdatePreservesOrder ==
    [][\A r \in pending :
        (r.op \in UpdateOps /\ Resolves(r) /\ r.id \in IdsOf(Local(r.coll))) =>
            /\ Len(Local(r.coll)') = Len(Local(r.coll))
            /\ \A i \in 1..Len(Local(r.coll)) :
                  Local(r.coll)'[i] =
                      IF Local(r.coll)[i].id = r.id THEN Value(r) ELSE Local(r.coll)[i]]_vars

\* C29 witness: A001, the first of two animals, was updated to Quarantine and is
\* still the first, with A002 after it
C29_Witness ==
    /\ pending = {} /\ nOps = 1
    /\ \E h \in resolvedUpdates : h.coll = "animals" /\ h.id = "A001"
    /\ Len(animals) = 2
    /\ animals[1].id = "A001" /\ animals[1].status = "Quarantine"
    /\ animals[2] = seedServer.animals[2]


\* C30: navigation gate: while isAuthenticated is false App renders the login
\* page and no other screen, whatever currentPage holds; and the screen rendered
\* right after a successful login, one that follows a logout from the dashboard
\* included, is the title page
C30_NavigationGate ==
    /\ [](~isAuthenticated => Rendered = "login")
    /\ [](isAuthenticated => Rendered \in Pages)
    /\ [][(~isAuthenticated /\ isAuthenticated') => Rendered' = "title"]_vars

\* C30 witness: the user has logged out from the dashboard, so currentPage still
\* holds "dashboard" while the login page is rendered, and has typed an email and
\* a password that pass the validation of the form
C30_Witness ==
    /\ ~isAuthenticated /\ currentPage = "dashboard"
    /\ Rendered = "login"
    /\ email # <<>> /\ DOMAIN validationErrors = {}

====
